---- MODULE Spec2Model ----
(***************************************************************************)
(* Model of the lecture-transcript RAG service:                            *)
(*   backend/ingest.py  parse_webvtt_content, create_chunks_from_segments, *)
(*                      ingest_data                                        *)
(*   backend/main.py    query_lecture (casual branch, retrieval branch)    *)
(*                                                                         *)
(* A Python str is modelled as a sequence of characters, so that len,      *)
(* slicing, split, strip, lower and "in" are computed rather than assumed. *)
(* An ASCII character is the one-character string; a character beyond      *)
(* ASCII is named by its code point, "U+00A0" for chr(0xA0).  The          *)
(* characters beyond ASCII that are represented are the Unicode whitespace *)
(* characters and the characters whose lower-case form contains an ASCII   *)
(* letter (U+0130, U+212A).  Python's None is the value None below.        *)
(***************************************************************************)
EXTENDS Integers, Sequences, FiniteSets, TLC

VARIABLES
    \* ---- text pipeline (parse_webvtt_content, create_chunks_from_segments)
    tpc,            \* position: "read" -> "parsed" -> "chunked"
    content,        \* the transcript text given to the parser
    chunk_size,     \* the threshold given to the chunk assembler
    segments,       \* result of parse_webvtt_content
    chunks,         \* result of create_chunks_from_segments
    \* ---- query endpoint (query_lecture)
    qpc,            \* position of the request / of its generator
    question,       \* request.question
    http_status,    \* 0 = nothing sent yet, 200 = stream opened, 500 = HTTPException
    http_detail,    \* detail of the HTTPException
    events,         \* events delivered on the stream, in order
    response,       \* generate_casual: the selected canned response
    results,        \* what collection.query returned
    sources,        \* the sources list prepared by the handler
    deltas,         \* history: delta.content of every chunk the model produced
    full_answer,    \* generate: accumulated answer
    raised,         \* history: the exception raised while serving, or NoException
    store_queries,  \* history: number of collection.query calls
    llm_calls,      \* history: number of chat.completions.create calls
    \* ---- ingestion (ingest_data)
    ipc,            \* position in ingest_data
    api_key,        \* OPENAI_API_KEY is set
    data_path,      \* what is at DATA_PATH: "missing", "file" or "dir"
    tree,           \* lecture files under the data directory, in walk order
    collection,     \* the stored collection: [exists, entries]
    prior,          \* history: the collection as the run found it
    all_documents, all_metadatas, all_ids,
    file_idx,       \* next lecture file of the walk
    batch_i,        \* loop variable i of the batch loop
    submitted       \* history: every batch handed to collection.add, with its outcome

text_vars == <<tpc, content, chunk_size, segments, chunks>>
query_vars == <<qpc, question, http_status, http_detail, events, response, results,
                sources, deltas, full_answer, raised, store_queries, llm_calls>>
ingest_vars == <<ipc, api_key, data_path, tree, collection, prior, all_documents,
                 all_metadatas, all_ids, file_idx, batch_i, submitted>>
vars == <<text_vars, query_vars, ingest_vars>>

(***************************************************************************)
(* Python values and str operations                                        *)
(***************************************************************************)
None == <<"None">>

\* bool(x) for x a str or None
Truthy(x) == x # None /\ x # <<>>

\* the characters str.strip() removes: every c with c.isspace()
Whitespace ==
    {"\t", "\n", "", "\f", "\r", "", "", "", "", " ",
     "U+0085", "U+00A0", "U+1680", "U+2000", "U+2001", "U+2002", "U+2003", "U+2004",
     "U+2005", "U+2006", "U+2007", "U+2008", "U+2009", "U+200A", "U+2028", "U+2029",
     "U+202F", "U+205F", "U+3000"}

RECURSIVE LStrip(_)
LStrip(s) == IF s # <<>> /\ Head(s) \in Whitespace THEN LStrip(Tail(s)) ELSE s

RECURSIVE RStrip(_)
RStrip(s) ==
    IF s # <<>> /\ s[Len(s)] \in Whitespace THEN RStrip(SubSeq(s, 1, Len(s) - 1)) ELSE s

\* s.strip()
Strip(s) == RStrip(LStrip(s))

\* s.startswith(p)
StartsWith(s, p) == Len(p) <= Len(s) /\ SubSeq(s, 1, Len(p)) = p

\* sub in s
Contains(s, sub) == \E i \in 1..(Len(s) - Len(sub) + 1) : SubSeq(s, i, i + Len(sub) - 1) = sub

\* s.find(sub) + 1, for sub in s
Find(s, sub) ==
    CHOOSE i \in 1..(Len(s) - Len(sub) + 1) :
        /\ SubSeq(s, i, i + Len(sub) - 1) = sub
        /\ \A j \in 1..(i - 1) : SubSeq(s, j, j + Len(sub) - 1) # sub

\* s.split(sep)
RECURSIVE Split(_, _)
Split(s, sep) ==
    IF ~Contains(s, sep) THEN <<s>>
    ELSE LET i == Find(s, sep)
         IN  <<SubSeq(s, 1, i - 1)>> \o Split(SubSeq(s, i + Len(sep), Len(s)), sep)

\* sep.join(parts)
RECURSIVE Join(_, _)
Join(sep, parts) ==
    IF parts = <<>> THEN <<>>
    ELSE IF Len(parts) = 1 THEN parts[1]
    ELSE parts[1] \o sep \o Join(sep, Tail(parts))

Arrow == <<"-", "-", ">">>
Space == <<" ">>
Newline == <<"\n">>

(***************************************************************************)
(* ingest.py: parse_webvtt_content                                         *)
(***************************************************************************)
\* Variant of the inner loop that stops at an empty line only.
RECURSIVE CollectTextLines_blankOnly(_, _, _)
CollectTextLines_blankOnly(lines, i, text_lines) ==
    IF i > Len(lines) THEN [i |-> i, text_lines |-> text_lines]
    ELSE LET text_line == Strip(lines[i])
         IN  IF text_line = <<>>
             THEN [i |-> i, text_lines |-> text_lines]
             ELSE CollectTextLines_blankOnly(lines, i + 1, Append(text_lines, text_line))

\* The inner while loop: collect text until the next timestamp or empty line.
\* Indices are 1-based: i here is the code's i + 1.
RECURSIVE CollectTextLines(_, _, _)
CollectTextLines(lines, i, text_lines) ==
    IF i > Len(lines) THEN [i |-> i, text_lines |-> text_lines]
    ELSE LET text_line == Strip(lines[i])
         IN  IF text_line = <<>> \/ Contains(text_line, Arrow)
             THEN [i |-> i, text_lines |-> text_lines]
             ELSE CollectTextLines(lines, i + 1, Append(text_lines, text_line))

\* The outer while loop.
RECURSIVE ParseLoop(_, _, _)
ParseLoop(lines, i, segs) ==
    IF i > Len(lines) THEN segs
    ELSE LET line == Strip(lines[i])
         IN  IF Contains(line, Arrow)
             THEN LET r == CollectTextLines(lines, i + 1, <<>>)
                  IN  ParseLoop(lines, r.i,
                                IF r.text_lines # <<>>
                                THEN Append(segs, [timestamp |-> line,
                                                   text |-> Join(Space, r.text_lines)])
                                ELSE segs)
             ELSE ParseLoop(lines, i + 1, segs)

parse_webvtt_content(c) == ParseLoop(Split(c, Newline), 1, <<>>)

(***************************************************************************)
(* ingest.py: create_chunks_from_segments                                  *)
(*                                                                         *)
(* The loop state carries the code's locals (chunks, current_text,         *)
(* start_timestamp, end_timestamp) and two history fields the code does    *)
(* not have: first, the index of the first segment folded into the         *)
(* accumulator (0 when it is empty), and spans, the <<first, last>>        *)
(* segment indices of every chunk appended so far.                         *)
(***************************************************************************)
ChunkInit ==
    [chunks |-> <<>>, current_text |-> <<>>, start_timestamp |-> None,
     end_timestamp |-> None, first |-> 0, spans |-> <<>>]

\* chunks.append({...}) with the accumulator's values
Flushed(st, last) ==
    [st EXCEPT !.chunks = Append(@, [text |-> st.current_text,
                                     timestamp_start |-> st.start_timestamp,
                                     timestamp_end |-> st.end_timestamp]),
               !.spans = Append(@, <<st.first, last>>)]

\* Variant of the loop body that forgets the incoming segment's length in the test.
FoldSegment_lenOnly(st, segment, size, k) ==
    LET flush == st.current_text # <<>> /\ Len(st.current_text) > size
        s1 == IF flush
              THEN [Flushed(st, k - 1) EXCEPT !.current_text = <<>>,
                                              !.start_timestamp = None, !.first = 0]
              ELSE st
        parts == Split(segment.timestamp, Arrow)
    IN  [s1 EXCEPT
            !.start_timestamp = IF ~Truthy(s1.start_timestamp) THEN Strip(parts[1]) ELSE @,
            !.end_timestamp = Strip(parts[2]),
            !.first = IF s1.first = 0 THEN k ELSE @,
            !.current_text = IF s1.current_text # <<>>
                             THEN s1.current_text \o Space \o segment.text
                             ELSE segment.text]

\* Variant of the loop body that drops the segment that triggered a flush.
FoldSegment_dropOnFlush(st, segment, size, k) ==
    LET flush == st.current_text # <<>> /\ Len(st.current_text) + Len(segment.text) > size
        parts == Split(segment.timestamp, Arrow)
    IN  IF flush
        THEN [Flushed(st, k - 1) EXCEPT !.current_text = <<>>,
                                        !.start_timestamp = None, !.first = 0]
        ELSE [st EXCEPT
                !.start_timestamp = IF ~Truthy(st.start_timestamp) THEN Strip(parts[1]) ELSE @,
                !.end_timestamp = Strip(parts[2]),
                !.first = IF st.first = 0 THEN k ELSE @,
                !.current_text = IF st.current_text # <<>>
                                 THEN st.current_text \o Space \o segment.text
                                 ELSE segment.text]

\* One iteration of "for segment in segments" (segment is segments[k]).
FoldSegment(st, segment, size, k) ==
    LET flush == st.current_text # <<>> /\ Len(st.current_text) + Len(segment.text) > size
        s1 == IF flush
              THEN [Flushed(st, k - 1) EXCEPT !.current_text = <<>>,
                                              !.start_timestamp = None, !.first = 0]
              ELSE st
        parts == Split(segment.timestamp, Arrow)
    IN  [s1 EXCEPT
            !.start_timestamp = IF ~Truthy(s1.start_timestamp) THEN Strip(parts[1]) ELSE @,
            !.end_timestamp = Strip(parts[2]),
            !.first = IF s1.first = 0 THEN k ELSE @,
            !.current_text = IF s1.current_text # <<>>
                             THEN s1.current_text \o Space \o segment.text
                             ELSE segment.text]

RECURSIVE ChunkLoop(_, _, _, _)
ChunkLoop(st, segs, size, k) ==
    IF k > Len(segs) THEN st
    ELSE ChunkLoop(FoldSegment(st, segs[k], size, k), segs, size, k + 1)

\* "Add final chunk"
FinalFlush(st, n) == IF st.current_text # <<>> THEN Flushed(st, n) ELSE st

ChunkRun(segs, size) == FinalFlush(ChunkLoop(ChunkInit, segs, size, 1), Len(segs))

create_chunks_from_segments(segs, size) == ChunkRun(segs, size).chunks

\* history: for every returned chunk, the indices of its first and last folded segment
ChunkSpans(segs, size) == ChunkRun(segs, size).spans

(***************************************************************************)
(* Idle values of the three variable groups, for the specifications that   *)
(* do not exercise them                                                    *)
(***************************************************************************)
NoException == [stage |-> "none", text |-> "none"]
Absent == [exists |-> FALSE, entries |-> {}]

TextIdle ==
    /\ tpc = "idle" /\ content = <<>> /\ chunk_size = 0
    /\ segments = <<>> /\ chunks = <<>>

QueryIdle ==
    /\ qpc = "idle" /\ question = <<>> /\ http_status = 0 /\ http_detail = "none"
    /\ events = <<>> /\ response = <<>> /\ results = None /\ sources = <<>>
    /\ deltas = <<>> /\ full_answer = <<>> /\ raised = NoException
    /\ store_queries = 0 /\ llm_calls = 0

IngestIdle ==
    /\ ipc = "idle" /\ api_key = TRUE /\ data_path = "dir" /\ tree = <<>>
    /\ collection = Absent /\ prior = Absent
    /\ all_documents = <<>> /\ all_metadatas = <<>> /\ all_ids = <<>>
    /\ file_idx = 1 /\ batch_i = 0 /\ submitted = <<>>

(***************************************************************************)
(* SpecText: the parser and the chunk assembler applied to bounded inputs  *)
(***************************************************************************)
MaxLines == 4
MaxChunkSize == 5

\* Lines a transcript is built from: cue lines (one with whitespace around the
\* separator, one with an empty start part, one with an empty end part), text
\* lines, an empty and a whitespace-only line.
SampleLines ==
    { <<"1", "\f", "-", "-", ">", "", "2">>,
      <<" ", "-", "-", ">", "3">>,
      <<"4", "-", "-", ">", "U+00A0">>,
      <<"a", "b">>,
      <<"", "c", "\r">>,
      <<>>,
      <<"\f">> }

Contents ==
    { Join(Newline, ls) : ls \in UNION { [1..n -> SampleLines] : n \in 0..MaxLines } }

TextInit ==
    /\ tpc = "read"
    /\ content \in Contents
    /\ chunk_size \in 0..MaxChunkSize
    /\ segments = <<>>
    /\ chunks = <<>>
    /\ QueryIdle /\ IngestIdle

\* segments = parse_webvtt_content(content)
Parse ==
    /\ tpc = "read"
    /\ segments' = parse_webvtt_content(content)
    /\ tpc' = "parsed"
    /\ UNCHANGED <<content, chunk_size, chunks, query_vars, ingest_vars>>

\* chunks = create_chunks_from_segments(segments, chunk_size)
Chunk ==
    /\ tpc = "parsed"
    /\ chunks' = create_chunks_from_segments(segments, chunk_size)
    /\ tpc' = "chunked"
    /\ UNCHANGED <<content, chunk_size, segments, query_vars, ingest_vars>>

TextNext == Parse \/ Chunk

SpecText == TextInit /\ [][TextNext]_vars

(***************************************************************************)
(* SpecChunk: the chunk assembler applied to bounded segment sequences.    *)
(* The segments are drawn from what the parser returns on one-cue          *)
(* transcripts, so every one of them is a segment the parser can produce.  *)
(***************************************************************************)
MaxSegments == 3

SampleCueLines ==
    { <<"1", "\f", "-", "-", ">", "", "2">>,
      <<" ", "-", "-", ">", "3">>,
      <<"4", "-", "-", ">", "U+00A0">> }

SampleCueTexts ==
    { << <<"a", "b">> >>,
      << <<"", "c", "\r">> >>,
      << <<"a", "b">>, <<"", "c", "\r">> >> }

SampleSegments ==
    UNION { { parse_webvtt_content(Join(Newline, <<cue>> \o ts))[k] :
                k \in 1..Len(parse_webvtt_content(Join(Newline, <<cue>> \o ts))) } :
            <<cue, ts>> \in SampleCueLines \X SampleCueTexts }

ChunkOnlyInit ==
    /\ tpc = "parsed"
    /\ content = <<>>
    /\ chunk_size \in 0..MaxChunkSize
    /\ segments \in UNION { [1..n -> SampleSegments] : n \in 0..MaxSegments }
    /\ chunks = <<>>
    /\ QueryIdle /\ IngestIdle

SpecChunk == ChunkOnlyInit /\ [][Chunk]_vars

(***************************************************************************)
(* Properties of the parser and the chunk assembler                        *)
(***************************************************************************)
SegTexts(segs) == [k \in 1..Len(segs) |-> segs[k].text]
ChunkTexts(cs) == [c \in 1..Len(cs) |-> cs[c].text]
Spans == ChunkSpans(segments, chunk_size)

\* the single-space join of the texts of segments f..l
SpanText(f, l) == Join(Space, [k \in 1..(l - f + 1) |-> segments[f + k - 1].text])

\* The spans of the chunks are contiguous runs that partition 1..Len(segments).
SpansPartition ==
    /\ Len(Spans) = Len(chunks)
    /\ \A c \in 1..Len(Spans) :
          /\ Spans[c][1] <= Spans[c][2]
          /\ Spans[c][1] = (IF c = 1 THEN 1 ELSE Spans[c - 1][2] + 1)
    /\ (segments # <<>>) => (Spans # <<>> /\ Spans[Len(Spans)][2] = Len(segments))
    /\ (segments = <<>>) => (Spans = <<>>)

\* C4: the chunks cover all input segments exactly once and in order: the spans
\* partition the segment sequence, every chunk's text is the single-space join of
\* the texts of its span, and the single-space join of the chunks' texts equals
\* the single-space join of all segments' texts.
C4_ChunksCoverSegments ==
    tpc = "chunked" =>
        /\ SpansPartition
        /\ \A c \in 1..Len(chunks) : chunks[c].text = SpanText(Spans[c][1], Spans[c][2])
        /\ Join(Space, ChunkTexts(chunks)) = Join(Space, SegTexts(segments))

C4_Witness ==
    /\ tpc = "chunked"
    /\ Len(chunks) >= 2
    /\ Len(segments) > Len(chunks)

\* C5 as stated: appending never makes a chunk exceed the threshold, so every
\* chunk built from two or more segments has at most chunk_size characters.
C5_MultiSegmentChunkWithinThreshold ==
    tpc = "chunked" =>
        \A c \in 1..Len(chunks) :
            Spans[c][1] < Spans[c][2] => Len(chunks[c].text) <= chunk_size

\* C5 amended: a non-empty chunk is closed before segment k is folded in exactly
\* when len(current_text) + len(segment text), not counting the joining space,
\* exceeds chunk_size; so every chunk built from two or more segments has at most
\* chunk_size + 1 characters, and only a single-segment chunk may be longer.
C5_MultiSegmentChunkWithinThresholdPlusOne ==
    tpc = "chunked" =>
        \A c \in 1..Len(chunks) :
            LET f == Spans[c][1]
                l == Spans[c][2]
            IN  /\ \A k \in (f + 1)..l :
                       Len(SpanText(f, k - 1)) + Len(segments[k].text) <= chunk_size
                /\ c > 1 => Len(chunks[c - 1].text) + Len(segments[f].text) > chunk_size
                /\ f < l => Len(chunks[c].text) <= chunk_size + 1
                /\ Len(chunks[c].text) > chunk_size + 1 => f = l

C5_Witness ==
    /\ tpc = "chunked"
    /\ \E c \in 1..Len(chunks) :
          /\ Spans[c][1] < Spans[c][2]
          /\ Len(chunks[c].text) = chunk_size + 1
    /\ \E c \in 1..Len(chunks) :
          /\ Spans[c][1] = Spans[c][2]
          /\ Len(chunks[c].text) > chunk_size + 1

\* the start and end parts of a segment's time-range line
StartPart(segment) == Strip(Split(segment.timestamp, Arrow)[1])
EndPart(segment) == Strip(Split(segment.timestamp, Arrow)[2])

\* C6: every chunk's timestamp_start is the start part of the first segment folded
\* into it and its timestamp_end is the end part of the last segment folded into it.
C6_ChunkTimeRange ==
    tpc = "chunked" =>
        \A c \in 1..Len(chunks) :
            /\ chunks[c].timestamp_start = StartPart(segments[Spans[c][1]])
            /\ chunks[c].timestamp_end = EndPart(segments[Spans[c][2]])

\* ---- what the parser is to return, stated on the lines and not as a loop
IsCueLine(l) == Contains(l, Arrow)
IsTextLine(l) == Strip(l) # <<>> /\ ~Contains(l, Arrow)

\* index of the last text line of the cue at line j (j itself when it has none)
CueTextEnd(ls, j) ==
    CHOOSE k \in j..Len(ls) :
        /\ \A m \in (j + 1)..k : IsTextLine(ls[m])
        /\ (k < Len(ls) => ~IsTextLine(ls[k + 1]))

CuesWithText(ls) == { j \in 1..Len(ls) : IsCueLine(ls[j]) /\ CueTextEnd(ls, j) > j }

ExpectedSegments(c) ==
    LET ls == Split(c, Newline)
        S == CuesWithText(ls)
    IN  [r \in 1..Cardinality(S) |->
            LET j == CHOOSE x \in S : Cardinality({y \in S : y < x}) = r - 1
            IN  [timestamp |-> Strip(ls[j]),
                 text |-> Join(Space, [m \in 1..(CueTextEnd(ls, j) - j) |-> Strip(ls[j + m])])]]

\* C7: the parser returns, in input order, exactly one segment per cue line that
\* is followed by at least one text line, its text the single-space join of the
\* stripped text lines; cues without text and lines outside a cue yield nothing.
C7_ParserSegments ==
    tpc \in {"parsed", "chunked"} => segments = ExpectedSegments(content)

C7_Witness ==
    /\ tpc = "parsed"
    /\ Len(segments) >= 1
    /\ \E k \in 1..Len(segments) : Contains(segments[k].text, Space)
    /\ LET ls == Split(content, Newline)
       IN  Cardinality({j \in 1..Len(ls) : IsCueLine(ls[j])}) > Len(segments)

(***************************************************************************)
(* main.py: query_lecture                                                  *)
(***************************************************************************)
UpperCase ==
    <<"A", "B", "C", "D", "E", "F", "G", "H", "I", "J", "K", "L", "M",
      "N", "O", "P", "Q", "R", "S", "T", "U", "V", "W", "X", "Y", "Z">>
LowerCase ==
    <<"a", "b", "c", "d", "e", "f", "g", "h", "i", "j", "k", "l", "m",
      "n", "o", "p", "q", "r", "s", "t", "u", "v", "w", "x", "y", "z">>

\* c.lower() for one character: A-Z, KELVIN SIGN (to "k") and LATIN CAPITAL
\* LETTER I WITH DOT ABOVE (to "i" and a combining dot) change, the other
\* represented characters do not
LowerChar(c) ==
    IF \E k \in 1..Len(UpperCase) : UpperCase[k] = c
    THEN <<LowerCase[CHOOSE k \in 1..Len(UpperCase) : UpperCase[k] = c]>>
    ELSE IF c = "U+212A" THEN <<"k">>
    ELSE IF c = "U+0130" THEN <<"i", "U+0307">>
    ELSE <<c>>

\* s.lower()
RECURSIVE Lower(_)
Lower(s) == IF s = <<>> THEN <<>> ELSE LowerChar(Head(s)) \o Lower(Tail(s))

\* casual_patterns: every pattern is ^(a|b|...), given here by its alternatives
casual_patterns ==
    <<
      <<
        <<"h", "i">>,
        <<"h", "e", "l", "l", "o">>,
        <<"h", "e", "y">>,
        <<"g", "o", "o", "d", " ", "m", "o", "r", "n", "i", "n", "g">>,
        <<"g", "o", "o", "d", " ", "a", "f", "t", "e", "r", "n", "o", "o", "n">>,
        <<"g", "o", "o", "d", " ", "e", "v", "e", "n", "i", "n", "g">>,
        <<"g", "r", "e", "e", "t", "i", "n", "g", "s">>
      >>,
      <<
        <<"h", "o", "w", " ", "a", "r", "e", " ", "y", "o", "u">>,
        <<"h", "o", "w", "'", "s", " ", "i", "t", " ", "g", "o", "i", "n", "g">>,
        <<"w", "h", "a", "t", "'", "s", " ", "u", "p">>,
        <<"w", "a", "s", "s", "u", "p">>,
        <<"s", "u", "p">>
      >>,
      <<
        <<"w", "h", "o", " ", "a", "r", "e", " ", "y", "o", "u">>,
        <<"w", "h", "a", "t", " ", "a", "r", "e", " ", "y", "o", "u">>,
        <<"t", "e", "l", "l", " ", "m", "e", " ", "a", "b", "o", "u", "t", " ", "y", "o", "u",
          "r", "s", "e", "l", "f">>
      >>,
      <<
        <<"t", "h", "a", "n", "k", " ", "y", "o", "u">>,
        <<"t", "h", "a", "n", "k", "s">>,
        <<"t", "h", "a", "n", "k">>,
        <<"t", "y">>
      >>,
      <<
        <<"b", "y", "e">>,
        <<"g", "o", "o", "d", "b", "y", "e">>,
        <<"s", "e", "e", " ", "y", "o", "u">>,
        <<"l", "a", "t", "e", "r">>
      >>,
      <<
        <<"o", "k">>,
        <<"o", "k", "a", "y">>,
        <<"a", "l", "r", "i", "g", "h", "t">>,
        <<"c", "o", "o", "l">>,
        <<"n", "i", "c", "e">>
      >>
    >>

\* casual_responses, in the order greeting, how_are_you, who_are_you, thanks, bye, ok
casual_responses ==
    <<
      <<"H", "e", "l", "l", "o", "!", " ", "I", "'", "m", " ", "y", "o", "u", "r", " ", "A",
        "I", " ", "T", "u", "t", "o", "r", ",", " ", "h", "e", "r", "e", " ", "t", "o", " ",
        "h", "e", "l", "p", " ", "y", "o", "u", " ", "l", "e", "a", "r", "n", " ", "f", "r",
        "o", "m", " ", "A", "n", "d", "r", "e", "w", " ", "N", "g", "'", "s", " ", "l", "e",
        "c", "t", "u", "r", "e", "s", ".", " ", "F", "e", "e", "l", " ", "f", "r", "e", "e",
        " ", "t", "o", " ", "a", "s", "k", " ", "m", "e", " ", "a", "n", "y", "t", "h", "i",
        "n", "g", " ", "a", "b", "o", "u", "t", " ", "G", "e", "n", "e", "r", "a", "t", "i",
        "v", "e", " ", "A", "I", ",", " ", "R", "A", "G", ",", " ", "F", "i", "n", "e", "-",
        "t", "u", "n", "i", "n", "g", ",", " ", "o", "r", " ", "a", "n", "y", " ", "t", "o",
        "p", "i", "c", " ", "f", "r", "o", "m", " ", "t", "h", "e", " ", "c", "o", "u", "r",
        "s", "e", "s", "!">>,
      <<"I", "'", "m", " ", "d", "o", "i", "n", "g", " ", "g", "r", "e", "a", "t", ",", " ",
        "t", "h", "a", "n", "k", " ", "y", "o", "u", " ", "f", "o", "r", " ", "a", "s", "k",
        "i", "n", "g", "!", " ", "I", "'", "m", " ", "r", "e", "a", "d", "y", " ", "t", "o",
        " ", "h", "e", "l", "p", " ", "y", "o", "u", " ", "u", "n", "d", "e", "r", "s", "t",
        "a", "n", "d", " ", "a", "n", "y", " ", "c", "o", "n", "c", "e", "p", "t", "s", " ",
        "f", "r", "o", "m", " ", "t", "h", "e", " ", "l", "e", "c", "t", "u", "r", "e", "s",
        ".", " ", "W", "h", "a", "t", " ", "w", "o", "u", "l", "d", " ", "y", "o", "u", " ",
        "l", "i", "k", "e", " ", "t", "o", " ", "l", "e", "a", "r", "n", " ", "a", "b", "o",
        "u", "t", " ", "t", "o", "d", "a", "y", "?">>,
      <<"I", "'", "m", " ", "a", "n", " ", "A", "I", "-", "p", "o", "w", "e", "r", "e", "d",
        " ", "t", "u", "t", "o", "r", " ", "b", "a", "s", "e", "d", " ", "o", "n", " ", "A",
        "n", "d", "r", "e", "w", " ", "N", "g", "'", "s", " ", "t", "e", "a", "c", "h", "i",
        "n", "g", " ", "s", "t", "y", "l", "e", ".", " ", "I", " ", "c", "a", "n", " ", "h",
        "e", "l", "p", " ", "y", "o", "u", " ", "u", "n", "d", "e", "r", "s", "t", "a", "n",
        "d", " ", "c", "o", "n", "c", "e", "p", "t", "s", " ", "f", "r", "o", "m", " ", "t",
        "h", "e", " ", "G", "e", "n", "e", "r", "a", "t", "i", "v", "e", " ", "A", "I", " ",
        "c", "o", "u", "r", "s", "e", "s", " ", "b", "y", " ", "a", "n", "s", "w", "e", "r",
        "i", "n", "g", " ", "y", "o", "u", "r", " ", "q", "u", "e", "s", "t", "i", "o", "n",
        "s", " ", "u", "s", "i", "n", "g", " ", "t", "h", "e", " ", "l", "e", "c", "t", "u",
        "r", "e", " ", "t", "r", "a", "n", "s", "c", "r", "i", "p", "t", "s", ".", " ", "H",
        "o", "w", " ", "c", "a", "n", " ", "I", " ", "a", "s", "s", "i", "s", "t", " ", "y",
        "o", "u", "?">>,
      <<"Y", "o", "u", "'", "r", "e", " ", "v", "e", "r", "y", " ", "w", "e", "l", "c", "o",
        "m", "e", "!", " ", "I", "f", " ", "y", "o", "u", " ", "h", "a", "v", "e", " ", "m",
        "o", "r", "e", " ", "q", "u", "e", "s", "t", "i", "o", "n", "s", ",", " ", "I", "'",
        "m", " ", "a", "l", "w", "a", "y", "s", " ", "h", "e", "r", "e", " ", "t", "o", " ",
        "h", "e", "l", "p", ".", " ", "K", "e", "e", "p", " ", "l", "e", "a", "r", "n", "i",
        "n", "g", "!">>,
      <<"G", "o", "o", "d", "b", "y", "e", "!", " ", "F", "e", "e", "l", " ", "f", "r", "e",
        "e", " ", "t", "o", " ", "c", "o", "m", "e", " ", "b", "a", "c", "k", " ", "a", "n",
        "y", "t", "i", "m", "e", " ", "y", "o", "u", " ", "h", "a", "v", "e", " ", "q", "u",
        "e", "s", "t", "i", "o", "n", "s", ".", " ", "H", "a", "p", "p", "y", " ", "l", "e",
        "a", "r", "n", "i", "n", "g", "!">>,
      <<"G", "r", "e", "a", "t", "!", " ", "I", "f", " ", "y", "o", "u", " ", "h", "a", "v",
        "e", " ", "a", "n", "y", " ", "q", "u", "e", "s", "t", "i", "o", "n", "s", " ", "a",
        "b", "o", "u", "t", " ", "t", "h", "e", " ", "c", "o", "u", "r", "s", "e", " ", "m",
        "a", "t", "e", "r", "i", "a", "l", ",", " ", "j", "u", "s", "t", " ", "a", "s", "k",
        " ", "a", "w", "a", "y", "!">>
    >>

closing_message ==
    <<"\n", "\n", "-", "-", "-", "\n", "\n", "*", "Y", "o", "u", " ", "c", "a", "n", " ", "f",
      "o", "l", "l", "o", "w", " ", "m", "y", " ", "l", "e", "c", "t", "u", "r", "e", "s", " ",
      "w", "h", "e", "r", "e", " ", "I", " ", "h", "a", "v", "e", " ", "d", "i", "s", "c", "u",
      "s", "s", "e", "d", " ", "t", "h", "e", "s", "e", " ", "t", "o", "p", "i", "c", "s", " ",
      "i", "n", " ", "m", "o", "r", "e", " ", "d", "e", "t", "a", "i", "l", ".", " ", "H", "e",
      "r", "e", " ", "a", "r", "e", " ", "t", "h", "e", " ", "r", "e", "f", "e", "r", "e", "n",
      "c", "e", "s", ":", "*", "\n", "\n">>

\* questions sent to the endpoint
SampleQuestions ==
    {
      <<"h", "i", " ", "t", "h", "e", "r", "e">>,
      <<" ", "H", "e", "l", "l", "o">>,
      <<"h", "o", "w", " ", "a", "r", "e", " ", "y", "o", "u">>,
      <<"W", "h", "a", "t", "'", "s", " ", "u", "p", "?">>,
      <<"w", "h", "o", " ", "a", "r", "e", " ", "y", "o", "u", "?">>,
      <<" ", "T", "H", "A", "N", "K", "S", "!", " ">>,
      <<"b", "y", "e">>,
      <<"s", "e", "e", " ", "y", "o", "u">>,
      <<"o", "k">>,
      <<"C", "o", "o", "l">>,
      <<"h", "i", "s", "t", "o", "r", "y", " ", "l", "e", "s", "s", "o", "n">>,
      <<"W", "h", "a", "t", " ", "i", "s", " ", "f", "i", "n", "e", "-", "t", "u", "n", "i",
        "n", "g", "?">>,
      <<"s", "a", "y", " ", "h", "i">>,
      <<>>,
      <<"x">>,
      <<"", "h", "i">>,
      <<"O", "U+212A">>,
      <<"H", "U+0130">>,
      <<"U+2003", "b", "y", "e", "">>
    }

\* re.match(pattern, s) for a pattern ^(a|b|...): some alternative is a prefix of s
ReMatch(alternatives, s) ==
    \E k \in 1..Len(alternatives) : StartsWith(s, alternatives[k])

\* question_lower = request.question.lower().strip()
QuestionLower(q) == Strip(Lower(q))

\* is_casual = any(re.match(pattern, question_lower) for pattern in casual_patterns)
IsCasual(q) ==
    \E p \in 1..Len(casual_patterns) : ReMatch(casual_patterns[p], QuestionLower(q))

\* Variant of the selection that answers thanks with the farewell.
SelectCasualResponse_thanksAsBye(question_lower) ==
    IF ReMatch(casual_patterns[1], question_lower) THEN casual_responses[1]
    ELSE IF ReMatch(casual_patterns[2], question_lower) THEN casual_responses[2]
    ELSE IF ReMatch(casual_patterns[3], question_lower) THEN casual_responses[3]
    ELSE IF ReMatch(casual_patterns[4], question_lower) THEN casual_responses[5]
    ELSE IF ReMatch(casual_patterns[5], question_lower) THEN casual_responses[5]
    ELSE casual_responses[6]

\* generate_casual: "Determine response based on question"
SelectCasualResponse(question_lower) ==
    IF ReMatch(casual_patterns[1], question_lower) THEN casual_responses[1]
    ELSE IF ReMatch(casual_patterns[2], question_lower) THEN casual_responses[2]
    ELSE IF ReMatch(casual_patterns[3], question_lower) THEN casual_responses[3]
    ELSE IF ReMatch(casual_patterns[4], question_lower) THEN casual_responses[4]
    ELSE IF ReMatch(casual_patterns[5], question_lower) THEN casual_responses[5]
    ELSE casual_responses[6]

\* ---- the events of the stream (the json payload of each "data: ..." frame)
ContentEvent(d) == [type |-> "content", data |-> d]
SourcesEvent(s) == [type |-> "sources", data |-> s]
DoneEvent == [type |-> "done"]

\* ---- what the vector store returns.  A metadata is a dict or None; its
\* values are never operated on and are kept as opaque strings.
ExcerptLimit == 200

Dict(items) == [py |-> "dict", items |-> items]
NoneMeta == [py |-> "None"]

FullMeta(n) ==
    Dict([course |-> "Course A", lecture |-> "Lecture 1",
          timestamp_start |-> "00:00:01.000", timestamp_end |-> "00:00:09.000",
          chunk_index |-> n])
PartialMeta == Dict([course |-> "Course B"])

ShortDoc == <<"d", "o", "c">>
LimitDoc == [i \in 1..ExcerptLimit |-> "y"]
LongDoc == [i \in 1..(ExcerptLimit + 1) |-> "x"]

QueryResult(ids, documents, metadatas) ==
    [ids |-> ids, documents |-> documents, metadatas |-> metadatas]

\* results of collection.query(n_results=5): an empty store, fewer than five
\* entries, five entries, and an entry stored without metadata
SampleResults ==
    { QueryResult(<<>>, <<>>, <<>>),
      QueryResult(<<"id1">>, <<ShortDoc>>, <<FullMeta(0)>>),
      QueryResult(<<"id1", "id2">>, <<LongDoc, LimitDoc>>, <<PartialMeta, FullMeta(1)>>),
      QueryResult(<<"id1", "id2", "id3", "id4", "id5">>,
                  <<ShortDoc, LongDoc, ShortDoc, LimitDoc, ShortDoc>>,
                  <<FullMeta(0), FullMeta(1), FullMeta(2), FullMeta(3), FullMeta(4)>>),
      QueryResult(<<"id1">>, <<ShortDoc>>, <<NoneMeta>>) }

\* exceptions of the store query and of the language-model API, by their text
StoreErrors == {"Collection lecture_transcript does not exist", "embedding request failed"}
ModelErrors == {"Incorrect API key provided", "Connection error"}
NoneTypeError == "'NoneType' object has no attribute 'get'"

\* metadata.get(key, default)
Get(metadata, key, default) ==
    IF key \in DOMAIN metadata.items THEN metadata.items[key] ELSE default

\* documents[i][:200] + "..." if len(documents[i]) > 200 else documents[i]
Excerpt(doc) ==
    IF Len(doc) > ExcerptLimit THEN SubSeq(doc, 1, ExcerptLimit) \o <<".", ".", ".">> ELSE doc

\* "Prepare sources for later"
BuildSources(r) ==
    [i \in 1..Len(r.ids) |->
        [course |-> Get(r.metadatas[i], "course", "Unknown"),
         lecture |-> Get(r.metadatas[i], "lecture", "Unknown"),
         timestamp_start |-> Get(r.metadatas[i], "timestamp_start", "00:00:00.000"),
         timestamp_end |-> Get(r.metadatas[i], "timestamp_end", "00:00:00.000"),
         text |-> Excerpt(r.documents[i])]]

\* ---- SpecQuery: one request to POST /query
MaxDeltas == 3

\* delta.content of a streamed chunk: a text fragment, the empty string or None
SampleDeltas == { <<"O", "k">>, <<",", " ", "s", "o">>, <<>>, None }

QueryInit ==
    /\ qpc = "request"
    /\ question \in SampleQuestions
    /\ http_status = 0 /\ http_detail = "none"
    /\ events = <<>> /\ response = <<>> /\ results = None /\ sources = <<>>
    /\ deltas = <<>> /\ full_answer = <<>> /\ raised = NoException
    /\ store_queries = 0 /\ llm_calls = 0
    /\ TextIdle /\ IngestIdle

\* the except clause of the handler: raise HTTPException(status_code=500, detail=str(e))
HandlerRaises(stage, text) ==
    /\ raised' = [stage |-> stage, text |-> text]
    /\ http_status' = 500
    /\ http_detail' = text
    /\ qpc' = "failed"

\* is_casual: return StreamingResponse(generate_casual())
HandleCasual ==
    /\ qpc = "request"
    /\ IsCasual(question)
    /\ http_status' = 200
    /\ qpc' = "casual_select"
    /\ UNCHANGED <<question, http_detail, events, response, results, sources, deltas,
                   full_answer, raised, store_queries, llm_calls, text_vars, ingest_vars>>

\* not casual, collection.query raises
HandleQueryRaises ==
    /\ qpc = "request"
    /\ ~IsCasual(question)
    /\ store_queries' = store_queries + 1
    /\ \E e \in StoreErrors : HandlerRaises("retrieval", e)
    /\ UNCHANGED <<question, events, response, results, sources, deltas, full_answer,
                   llm_calls, text_vars, ingest_vars>>

\* not casual, an entry comes back without metadata: metadata.get raises
HandleSourcesRaise ==
    /\ qpc = "request"
    /\ ~IsCasual(question)
    /\ store_queries' = store_queries + 1
    /\ \E r \in SampleResults :
          /\ \E i \in 1..Len(r.ids) : r.metadatas[i] = NoneMeta
          /\ results' = r
    /\ HandlerRaises("prepare", NoneTypeError)
    /\ UNCHANGED <<question, events, response, sources, deltas, full_answer,
                   llm_calls, text_vars, ingest_vars>>

\* not casual, retrieval and source preparation succeed:
\* return StreamingResponse(generate())
HandleRetrieval ==
    /\ qpc = "request"
    /\ ~IsCasual(question)
    /\ store_queries' = store_queries + 1
    /\ \E r \in SampleResults :
          /\ \A i \in 1..Len(r.ids) : r.metadatas[i] # NoneMeta
          /\ results' = r
          /\ sources' = BuildSources(r)
    /\ http_status' = 200
    /\ qpc' = "generate"
    /\ UNCHANGED <<question, http_detail, events, response, deltas, full_answer,
                   raised, llm_calls, text_vars, ingest_vars>>

\* generate_casual, up to the for loop
CasualSelect ==
    /\ qpc = "casual_select"
    /\ response' = SelectCasualResponse(QuestionLower(question))
    /\ qpc' = "casual_stream"
    /\ UNCHANGED <<question, http_status, http_detail, events, results, sources, deltas,
                   full_answer, raised, store_queries, llm_calls, text_vars, ingest_vars>>

\* generate_casual: for char in response: yield content
CasualYieldChar ==
    /\ qpc = "casual_stream"
    /\ Len(events) < Len(response)
    /\ events' = Append(events, ContentEvent(<<response[Len(events) + 1]>>))
    /\ UNCHANGED <<qpc, question, http_status, http_detail, response, results, sources,
                   deltas, full_answer, raised, store_queries, llm_calls,
                   text_vars, ingest_vars>>

\* generate_casual: yield done
CasualYieldDone ==
    /\ qpc = "casual_stream"
    /\ Len(events) = Len(response)
    /\ events' = Append(events, DoneEvent)
    /\ qpc' = "closed"
    /\ UNCHANGED <<question, http_status, http_detail, response, results, sources,
                   deltas, full_answer, raised, store_queries, llm_calls,
                   text_vars, ingest_vars>>

\* An exception inside generate(): the handler has returned, its except clause is
\* no longer on the stack, the status line (200) is already sent.
GeneratorRaises(stage, text) ==
    /\ raised' = [stage |-> stage, text |-> text]
    /\ qpc' = "aborted"

\* generate: openai_client.chat.completions.create(..., stream=True) returns
GenCreateStream ==
    /\ qpc = "generate"
    /\ llm_calls' = llm_calls + 1
    /\ full_answer' = <<>>
    /\ qpc' = "streaming"
    /\ UNCHANGED <<question, http_status, http_detail, events, response, results, sources,
                   deltas, raised, store_queries, text_vars, ingest_vars>>

\* generate: openai_client.chat.completions.create raises
GenCreateStreamRaises ==
    /\ qpc = "generate"
    /\ llm_calls' = llm_calls + 1
    /\ \E e \in ModelErrors : GeneratorRaises("model_call", e)
    /\ UNCHANGED <<question, http_status, http_detail, events, response, results, sources,
                   deltas, full_answer, store_queries, text_vars, ingest_vars>>

\* generate: one iteration of "for chunk in stream"
GenDelta ==
    /\ qpc = "streaming"
    /\ Len(deltas) < MaxDeltas
    /\ \E d \in SampleDeltas :
          /\ deltas' = Append(deltas, d)
          /\ IF Truthy(d)
             THEN /\ full_answer' = full_answer \o d
                  /\ events' = Append(events, ContentEvent(d))
             ELSE UNCHANGED <<full_answer, events>>
    /\ UNCHANGED <<qpc, question, http_status, http_detail, response, results, sources,
                   raised, store_queries, llm_calls, text_vars, ingest_vars>>

\* generate: the stream raises while it is iterated
GenStreamRaises ==
    /\ qpc = "streaming"
    /\ \E e \in ModelErrors : GeneratorRaises("model_stream", e)
    /\ UNCHANGED <<question, http_status, http_detail, events, response, results, sources,
                   deltas, full_answer, store_queries, llm_calls, text_vars, ingest_vars>>

\* Variant that ends the model stream without the closing note.
GenYieldClosing_skip ==
    /\ qpc = "streaming"
    /\ qpc' = "sources"
    /\ UNCHANGED <<question, http_status, http_detail, events, response, results, sources,
                   deltas, full_answer, raised, store_queries, llm_calls,
                   text_vars, ingest_vars>>

\* generate: the model stream is exhausted; yield the closing message
GenYieldClosing ==
    /\ qpc = "streaming"
    /\ events' = Append(events, ContentEvent(closing_message))
    /\ qpc' = "sources"
    /\ UNCHANGED <<question, http_status, http_detail, response, results, sources,
                   deltas, full_answer, raised, store_queries, llm_calls,
                   text_vars, ingest_vars>>

\* generate: yield sources
GenYieldSources ==
    /\ qpc = "sources"
    /\ events' = Append(events, SourcesEvent(sources))
    /\ qpc' = "done"
    /\ UNCHANGED <<question, http_status, http_detail, response, results, sources,
                   deltas, full_answer, raised, store_queries, llm_calls,
                   text_vars, ingest_vars>>

\* generate: yield done
GenYieldDone ==
    /\ qpc = "done"
    /\ events' = Append(events, DoneEvent)
    /\ qpc' = "closed"
    /\ UNCHANGED <<question, http_status, http_detail, response, results, sources,
                   deltas, full_answer, raised, store_queries, llm_calls,
                   text_vars, ingest_vars>>

QueryNext ==
    \/ HandleCasual
    \/ HandleQueryRaises
    \/ HandleSourcesRaise
    \/ HandleRetrieval
    \/ CasualSelect
    \/ CasualYieldChar
    \/ CasualYieldDone
    \/ GenCreateStream
    \/ GenCreateStreamRaises
    \/ GenDelta
    \/ GenStreamRaises
    \/ GenYieldClosing
    \/ GenYieldSources
    \/ GenYieldDone

SpecQuery == QueryInit /\ [][QueryNext]_vars

(***************************************************************************)
(* Properties of the query endpoint                                        *)
(***************************************************************************)
CountEvents(t) == Cardinality({i \in 1..Len(events) : events[i].type = t})

\* equality of two events: the same type and, unless done, the same data
SameEvent(a, b) == a.type = b.type /\ (a.type = "done" \/ a.data = b.data)

\* the fragments the model produced whose content is not empty, in generation order
ModelFragments == SelectSeq(deltas, Truthy)

ExpectedRetrievalStream ==
    [i \in 1..Len(ModelFragments) |-> ContentEvent(ModelFragments[i])]
        \o <<ContentEvent(closing_message), SourcesEvent(sources), DoneEvent>>

\* C1: on the retrieval branch a stream that ran to completion is the model's
\* fragments as content events in generation order, then the closing note, then
\* one sources event, then done; at no time does a content event follow the
\* sources event or anything follow done.
C1_RetrievalStreamShape ==
    ~IsCasual(question) =>
        /\ qpc = "closed" =>
              /\ Len(events) = Len(ExpectedRetrievalStream)
              /\ \A i \in 1..Len(events) : SameEvent(events[i], ExpectedRetrievalStream[i])
        /\ \A i \in 1..Len(events) : \A j \in (i + 1)..Len(events) :
              /\ events[i].type # "done"
              /\ events[i].type = "sources" => events[j].type \notin {"content", "sources"}

C1_Witness ==
    /\ ~IsCasual(question)
    /\ qpc = "closed"
    /\ Len(ModelFragments) >= 2
    /\ Len(deltas) > Len(ModelFragments)
    /\ Len(sources) = 5

\* C2: every exception raised while a query is served, at whichever stage, ends
\* the request with HTTP 500 whose detail is the exception's text.
C2_EveryExceptionIsHttp500 ==
    raised # NoException => (http_status = 500 /\ http_detail = raised.text)

\* C3: every opened stream, once it is over, carries exactly one done event, as
\* its last event; a sources event appears at most once, only on the retrieval
\* branch and only after all content events.
C3_ExactlyOneTerminalDone ==
    (http_status = 200 /\ qpc \in {"closed", "aborted"}) =>
        /\ CountEvents("done") = 1
        /\ events[Len(events)].type = "done"
        /\ CountEvents("sources") <= 1
        /\ CountEvents("sources") = 1 => ~IsCasual(question)
        /\ \A i \in 1..Len(events) : \A j \in (i + 1)..Len(events) :
              events[i].type = "sources" => events[j].type # "content"

\* the first pattern, in list order, that matches
FirstMatch(q) ==
    CHOOSE p \in 1..Len(casual_patterns) :
        /\ ReMatch(casual_patterns[p], q)
        /\ \A r \in 1..(p - 1) : ~ReMatch(casual_patterns[r], q)

\* C8: a question whose lower-cased, stripped form matches a casual pattern gets
\* only single-character content events, which spell the canned response of the
\* first matching pattern and are followed immediately by done, with no sources
\* event, no store query and no model call; a question matching no pattern takes
\* the retrieval branch.
C8_CasualBranch ==
    LET q == QuestionLower(question)
        matches == \E p \in 1..Len(casual_patterns) : ReMatch(casual_patterns[p], q)
    IN  /\ matches =>
              /\ store_queries = 0 /\ llm_calls = 0
              /\ qpc \in {"request", "casual_select", "casual_stream", "closed"}
              /\ \A i \in 1..Len(events) :
                    \/ events[i].type = "content" /\ Len(events[i].data) = 1
                    \/ events[i].type = "done" /\ i = Len(events)
              /\ qpc = "closed" =>
                    /\ http_status = 200
                    /\ events # <<>> /\ events[Len(events)].type = "done"
                    /\ Len(events) - 1 = Len(casual_responses[FirstMatch(q)])
                    /\ \A i \in 1..(Len(events) - 1) :
                          events[i].data = <<casual_responses[FirstMatch(q)][i]>>
        /\ (~matches /\ qpc # "request") =>
              /\ store_queries = 1
              /\ qpc \notin {"casual_select", "casual_stream"}
              /\ response = <<>>

C8_Witness ==
    /\ qpc = "closed"
    /\ question # QuestionLower(question)
    /\ ReMatch(casual_patterns[4], QuestionLower(question))
    /\ Len(events) = Len(casual_responses[4]) + 1

(***************************************************************************)
(* ingest.py: ingest_data                                                  *)
(*                                                                         *)
(* A lecture file is [course, readable, nchunks]: nchunks is the number of *)
(* chunks create_chunks_from_segments(parse_webvtt_content(content))       *)
(* returns for it, and the chunks' texts and time ranges are opaque values *)
(* named after the file and the chunk's position.  The lecture title is    *)
(* the file's position in the walk.  uuid4 values are taken to be unique:  *)
(* the n-th id generated is <<"uuid", n>>; entries left by an earlier run  *)
(* have ids <<"old", n>>.                                                  *)
(***************************************************************************)
batch_size == 50

MaxFiles == 3
Courses == 1..2

\* chunk counts of one lecture file: one, a full batch, one more than a batch
FileChunkCounts == {1, batch_size, batch_size + 1}

LectureFiles ==
    [course : Courses, readable : {TRUE}, nchunks : FileChunkCounts]
        \cup [course : Courses, readable : {FALSE}, nchunks : {0}]

\* the lecture files in walk order: course folder by course folder
Trees ==
    { t \in UNION { [1..n -> LectureFiles] : n \in 0..MaxFiles } :
        \A i \in 1..(Len(t) - 1) : t[i].course <= t[i + 1].course }

Entry(id, document, metadata) == [id |-> id, document |-> document, metadata |-> metadata]

OldEntries ==
    { Entry(<<"old", n>>, <<"text", 0, n>>,
            [course |-> 1, lecture |-> 0, timestamp_start |-> <<"start", 0, n>>,
             timestamp_end |-> <<"end", 0, n>>, chunk_index |-> n - 1]) : n \in 1..2 }

Existing(entries) == [exists |-> TRUE, entries |-> entries]

\* create_chunks_from_segments(parse_webvtt_content(content)) of the f-th file
FileChunks(f, file) ==
    [idx \in 1..file.nchunks |->
        [text |-> <<"text", f, idx>>,
         timestamp_start |-> <<"start", f, idx>>,
         timestamp_end |-> <<"end", f, idx>>]]

IngestInit ==
    /\ ipc = "start"
    /\ api_key \in BOOLEAN
    /\ data_path \in {"missing", "file", "dir"}
    /\ tree \in Trees
    /\ data_path # "dir" => tree = <<>>
    /\ collection \in {Absent, Existing({}), Existing(OldEntries)}
    /\ prior = collection
    /\ all_documents = <<>> /\ all_metadatas = <<>> /\ all_ids = <<>>
    /\ file_idx = 1 /\ batch_i = 0 /\ submitted = <<>>
    /\ TextIdle /\ QueryIdle

\* module level: if not OPENAI_API_KEY: raise ValueError
Startup ==
    /\ ipc = "start"
    /\ ipc' = IF api_key THEN "reset" ELSE "aborted_credential"
    /\ UNCHANGED <<api_key, data_path, tree, collection, prior, all_documents,
                   all_metadatas, all_ids, file_idx, batch_i, submitted,
                   text_vars, query_vars>>

\* Variant that opens the collection as main.py does (get_or_create) without deleting it.
ResetCollection_getOrCreate ==
    /\ ipc = "reset"
    /\ collection' = IF collection.exists THEN collection ELSE Existing({})
    /\ ipc' = "check_root"
    /\ UNCHANGED <<api_key, data_path, tree, prior, all_documents, all_metadatas,
                   all_ids, file_idx, batch_i, submitted, text_vars, query_vars>>

\* delete_collection (an absent collection raises, which is swallowed), then
\* create_collection
ResetCollection ==
    /\ ipc = "reset"
    /\ collection' = Existing({})
    /\ ipc' = "check_root"
    /\ UNCHANGED <<api_key, data_path, tree, prior, all_documents, all_metadatas,
                   all_ids, file_idx, batch_i, submitted, text_vars, query_vars>>

\* if not data_path.exists(): raise ValueError; then data_path.iterdir(), which
\* raises NotADirectoryError, caught by nothing, when DATA_PATH is not a directory
CheckRoot ==
    /\ ipc = "check_root"
    /\ ipc' = IF data_path = "missing" THEN "aborted_root"
              ELSE IF data_path = "file" THEN "aborted_walk"
              ELSE IF tree = <<>> THEN "batch" ELSE "walk"
    /\ UNCHANGED <<api_key, data_path, tree, collection, prior, all_documents,
                   all_metadatas, all_ids, file_idx, batch_i, submitted,
                   text_vars, query_vars>>

\* one iteration of "for lecture_file in lecture_files", with its try/except:
\* a file that cannot be read contributes nothing
ProcessFile ==
    /\ ipc = "walk"
    /\ file_idx <= Len(tree)
    /\ LET file == tree[file_idx]
           cs == FileChunks(file_idx, file)
       IN  IF file.readable
           THEN /\ all_documents' = all_documents \o [idx \in 1..Len(cs) |-> cs[idx].text]
                /\ all_metadatas' = all_metadatas \o
                      [idx \in 1..Len(cs) |->
                          [course |-> file.course,
                           lecture |-> file_idx,
                           timestamp_start |-> cs[idx].timestamp_start,
                           timestamp_end |-> cs[idx].timestamp_end,
                           chunk_index |-> idx - 1]]
                /\ all_ids' = all_ids \o [idx \in 1..Len(cs) |-> <<"uuid", Len(all_ids) + idx>>]
           ELSE UNCHANGED <<all_documents, all_metadatas, all_ids>>
    /\ file_idx' = file_idx + 1
    /\ ipc' = IF file_idx = Len(tree) THEN "batch" ELSE "walk"
    /\ UNCHANGED <<api_key, data_path, tree, collection, prior, batch_i, submitted,
                   text_vars, query_vars>>

\* end_idx = min(i + batch_size, len(all_documents))
EndIdx(i, n) == IF i + batch_size < n THEN i + batch_size ELSE n

\* Variant of the slice that starts one element late.
Slice_skipFirst(seq, i, end_idx) == SubSeq(seq, i + 2, end_idx)

\* seq[i:end_idx]
Slice(seq, i, end_idx) == SubSeq(seq, i + 1, end_idx)

\* the batch of the loop iteration with loop variable i
Batch(i) ==
    LET end_idx == EndIdx(i, Len(all_documents))
    IN  [documents |-> Slice(all_documents, i, end_idx),
         metadatas |-> Slice(all_metadatas, i, end_idx),
         ids |-> Slice(all_ids, i, end_idx)]

BatchEntries(b) == { Entry(b.ids[p], b.documents[p], b.metadatas[p]) : p \in 1..Len(b.ids) }

\* one iteration of the batch loop, collection.add succeeds
AddBatch ==
    /\ ipc = "batch"
    /\ batch_i < Len(all_documents)
    /\ LET b == Batch(batch_i)
       IN  /\ collection' = [collection EXCEPT !.entries = @ \cup BatchEntries(b)]
           /\ submitted' = Append(submitted, [batch |-> b, ok |-> TRUE])
    /\ batch_i' = batch_i + batch_size
    /\ UNCHANGED <<ipc, api_key, data_path, tree, prior, all_documents, all_metadatas,
                   all_ids, file_idx, text_vars, query_vars>>

\* one iteration of the batch loop, collection.add raises: logged, loop goes on
AddBatchFails ==
    /\ ipc = "batch"
    /\ batch_i < Len(all_documents)
    /\ submitted' = Append(submitted, [batch |-> Batch(batch_i), ok |-> FALSE])
    /\ batch_i' = batch_i + batch_size
    /\ UNCHANGED <<ipc, api_key, data_path, tree, collection, prior, all_documents,
                   all_metadatas, all_ids, file_idx, text_vars, query_vars>>

\* the batch loop is over: "Ingestion Complete!"
Finish ==
    /\ ipc = "batch"
    /\ batch_i >= Len(all_documents)
    /\ ipc' = "complete"
    /\ UNCHANGED <<api_key, data_path, tree, collection, prior, all_documents,
                   all_metadatas, all_ids, file_idx, batch_i, submitted,
                   text_vars, query_vars>>

IngestNext ==
    \/ Startup
    \/ ResetCollection
    \/ CheckRoot
    \/ ProcessFile
    \/ AddBatch
    \/ AddBatchFails
    \/ Finish

SpecIngest == IngestInit /\ [][IngestNext]_vars

(***************************************************************************)
(* Properties of ingestion                                                 *)
(***************************************************************************)
\* C9: the collected chunks go to the store in consecutive batches of at most
\* batch_size, every chunk in exactly one batch with its id, text and metadata at
\* the same position; a failed write does not stop the loop, and at the end the
\* store holds exactly the chunks of the batches whose write succeeded.
C9_BatchesCoverChunks ==
    /\ ipc \in {"batch", "complete"} =>
          /\ batch_i = batch_size * Len(submitted)
          /\ \A b \in 1..Len(submitted) :
                LET n == Len(submitted[b].batch.ids)
                IN  /\ n \in 1..batch_size
                    /\ Len(submitted[b].batch.documents) = n
                    /\ Len(submitted[b].batch.metadatas) = n
                    /\ \A p \in 1..n :
                          LET k == (b - 1) * batch_size + p
                          IN  /\ k <= Len(all_ids)
                              /\ submitted[b].batch.ids[p] = all_ids[k]
                              /\ submitted[b].batch.documents[p] = all_documents[k]
                              /\ submitted[b].batch.metadatas[p] = all_metadatas[k]
    /\ ipc = "complete" =>
          /\ \A k \in 1..Len(all_ids) :
                /\ (k - 1) \div batch_size + 1 <= Len(submitted)
                /\ ((k - 1) % batch_size) + 1 <=
                      Len(submitted[(k - 1) \div batch_size + 1].batch.ids)
          /\ collection.exists
          /\ collection.entries =
                UNION { BatchEntries(submitted[b].batch) :
                          b \in {x \in 1..Len(submitted) : submitted[x].ok} }

C9_Witness ==
    /\ ipc = "complete"
    /\ Len(submitted) = 3
    /\ ~submitted[1].ok /\ submitted[2].ok /\ submitted[3].ok
    /\ Len(submitted[3].batch.ids) < batch_size
    /\ \E f \in 1..Len(tree) : ~tree[f].readable

\* C10: the collection is deleted and recreated before the data directory is
\* checked: a run that completes, or that aborts on a missing (or unlistable)
\* data directory, leaves no entry of an earlier run in the collection, and the
\* abort leaves the collection existing and empty.
C10_RebuildBeforeRootCheck ==
    /\ ipc \in {"complete", "aborted_root", "aborted_walk"} =>
          /\ collection.exists
          /\ collection.entries \cap prior.entries = {}
    /\ ipc \in {"aborted_root", "aborted_walk"} => collection.entries = {}

C10_Witness ==
    /\ ipc = "aborted_root"
    /\ prior.entries # {}
    /\ collection.entries = {}

====
